---- MODULE Spec2Model ----
(***************************************************************************)
(* Fast Pay MVP: the payment pipeline of src/main.py (create_payment,      *)
(* process_payment_pipeline, get_payment_status, log_transaction) with the *)
(* API gateway, the risk engine and the payment orchestrator it calls.     *)
(*                                                                         *)
(* Conventions.  A nullable column holds None (<<>>) or Some(v) (<<v>>).   *)
(* Risk scores are integers: raw scores in units of 1/10000, the rounded   *)
(* (3-decimal) score in units of 1/1000.  Money is in cents where a fee is *)
(* computed.  A string the code tests with startswith is a sequence whose  *)
(* first element is the prefix.  The columns customer_id, payment_method,  *)
(* created_at and the free-form details of an audit entry influence no     *)
(* decision of the code and are not carried.                               *)
(***************************************************************************)
EXTENDS Integers, Sequences, FiniteSets, TLC

\* ------------------------------------------------------------------ bounds
MaxPayments == 1
MaxClock == 1
MinuteTicks == 1
MaxConcurrent == 2
MaxIngressPayments == 11
MaxQrCodes == 1
MaxUsageLimit == 2
MaxQrUses == 3
MaxSessions == 2
MaxElapses == 2

\* --------------------------------------------------------------- constants
RATE_LIMIT == 10
high_amount_threshold == 5000
ESWATINI_MAX_AMOUNT == 10000
ESWATINI_FEE_PERMILLE == 15
VISA_FEE_PERMILLE == 25
access_token_expire_hours == 1
refresh_token_expire_days == 30
max_failed_attempts == 5
lockout_duration_minutes == 30
password_reset_expire_hours == 1

None == <<>>
Some(v) == <<v>>

PaymentIds == 1..MaxPayments

\* PaymentStatus (database.py)
PaymentStatus == {"pending", "risk_check", "processing", "completed", "failed"}
\* SettlementRail (database.py)
SettlementRail == {"eswatini_switch", "visa_direct"}

unusual_hours == {0, 1, 2, 3, 4, 5}
known_locations == {"Manzini", "Mbabane"}
\* merchant profiles that already hold the paying merchant
merchant_profiles_seeded == {<<"MERCH_", "001">>}

\* RiskEngine.merchant_profiles: created empty, written by no operation
merchant_profiles == {}

\* Merchant ids: <<prefix, rest>>
MERCH_001 == <<"MERCH_", "001">>
SHOP_77 == <<"SHOP_", "77">>
MerchantIds == {MERCH_001, SHOP_77}
\* the Merchant table (no merchant is registered in the modelled runs)
RegisteredMerchants == {}

\* The requests the clients send
Requests ==
  { [merchant_id |-> MERCH_001, amount |-> 1000, currency |-> "SZL", customer_location |-> None],
    [merchant_id |-> MERCH_001, amount |-> 50000, currency |-> "SZL", customer_location |-> Some("Lagos")],
    [merchant_id |-> SHOP_77, amount |-> 1000, currency |-> "SZL", customer_location |-> None] }

\* Environment draws of one risk assessment: hour of day, random.uniform(0, 0.3)
\* in 1/10000, random.random() < 0.1
Hours == {3, 14}
MlAnomalyScores == {996}

VARIABLES
  payments,      \* Payment table: committed row of each payment id, or None
  transactions,  \* Transaction table: committed audit entries of each payment id, in insert order
  session,       \* the Payment object held by the code working on the payment (row + uncommitted assignments)
  pc,            \* position of the background task of each payment id
  local,         \* the task's arguments and local variables
  rate_limits,   \* APIGateway.rate_limits
  now,           \* datetime.utcnow(), in ticks
  background_tasks, \* process_payment_pipeline tasks added with add_task, counted per payment id
  call,          \* a service function applied on its own: name, arguments, returned value
  users,         \* User table
  user_sessions, \* UserSession table
  qr_codes       \* QRCode table

vars == <<payments, transactions, session, pc, local, rate_limits, now, background_tasks, call, users, user_sessions, qr_codes>>

\* ------------------------------------------------------------ pure helpers
\* round(x, d) on a value given as n/k: the nearest integer to n/k, ties to even
RoundHalfEven(n, k) ==
  LET q == n \div k
      r == n % k
  IN  IF 2 * r < k THEN q
      ELSE IF 2 * r > k THEN q + 1
      ELSE IF q % 2 = 0 THEN q ELSE q + 1

\* round(x, d) on a value given as n/k where the product x was formed in binary
\* floating point: the nearest integer to n/k; at an exact tie the binary value
\* of x lies on either side, up tells on which
RoundNearest(n, k, up) ==
  LET q == n \div k
      r == n % k
  IN  IF 2 * r < k THEN q
      ELSE IF 2 * r > k THEN q + 1
      ELSE IF up THEN q + 1 ELSE q

\* a min that returns its first argument
Min_first(a, b) == IF a < b THEN a ELSE a

Min(a, b) == IF a < b THEN a ELSE b

IsPrefix(s, t) == Len(s) <= Len(t) /\ SubSeq(t, 1, Len(s)) = s

\* str.startswith on a <<prefix, rest>> string
startswith(str, prefix) == Len(str) >= 1 /\ str[1] = prefix

\* --------------------------------------------------------------- APIGateway
\* MerchantService.authenticate_merchant_id: the registered merchant, if any
authenticate_merchant_id(merchant_id) == merchant_id \in RegisteredMerchants

\* an authenticate_request that lets every merchant id through
authenticate_request_any(merchant_id) ==
  IF authenticate_merchant_id(merchant_id) THEN TRUE
  ELSE Len(merchant_id) >= 1

\* APIGateway.authenticate_request
authenticate_request(merchant_id) ==
  IF authenticate_merchant_id(merchant_id) THEN TRUE
  ELSE startswith(merchant_id, "MERCH_")

\* a limiter that rejects only above the limit
check_rate_limit_off_by_one(limits, merchant_id, t) ==
  LET fresh == SelectSeq(limits[merchant_id], LAMBDA ts : t - ts < MinuteTicks)
  IN  IF Len(fresh) > RATE_LIMIT
      THEN <<FALSE, [limits EXCEPT ![merchant_id] = fresh]>>
      ELSE <<TRUE, [limits EXCEPT ![merchant_id] = Append(fresh, t)]>>

\* APIGateway.check_rate_limit: <<returned value, rate_limits afterwards>>
check_rate_limit(limits, merchant_id, t) ==
  LET fresh == SelectSeq(limits[merchant_id], LAMBDA ts : t - ts < MinuteTicks)
  IN  IF Len(fresh) >= RATE_LIMIT
      THEN <<FALSE, [limits EXCEPT ![merchant_id] = fresh]>>
      ELSE <<TRUE, [limits EXCEPT ![merchant_id] = Append(fresh, t)]>>

\* --------------------------------------------------------------- RiskEngine
\* recommendation from the raw (unrounded) score, in 1/10000
recommendation_of(raw) ==
  IF raw < 3000 THEN "APPROVE"
  ELSE IF raw < 7000 THEN "REVIEW"
  ELSE "DECLINE"

\* RiskEngine.assess_risk; current_hour, velocity (random.random() < 0.1) and
\* ml_anomaly_score (random.uniform(0, 0.3), in 1/10000) are the draws it makes
assess_risk(payment_data, current_hour, velocity, ml_anomaly_score) ==
  LET high   == payment_data.amount > high_amount_threshold
      late   == current_hour \in unusual_hours
      fresh  == payment_data.merchant_id \notin merchant_profiles
      abroad == /\ payment_data.customer_location # None
                /\ payment_data.customer_location[1] \notin known_locations
      raw == (IF high THEN 3000 ELSE 0)
             + (IF late THEN 2000 ELSE 0)
             + (IF fresh THEN 1000 ELSE IF velocity THEN 4000 ELSE 0)
             + (IF abroad THEN 1500 ELSE 0)
             + ml_anomaly_score
      capped == Min(raw, 10000)
  IN  [ risk_score |-> RoundHalfEven(capped, 10),
        risk_factors |->
              (IF high THEN <<"High amount">> ELSE <<>>)
           \o (IF late THEN <<"Unusual transaction time">> ELSE <<>>)
           \o (IF fresh THEN <<"New merchant - limited history">>
               ELSE IF velocity THEN <<"High transaction velocity detected">> ELSE <<>>)
           \o (IF abroad THEN <<"Unusual location">> ELSE <<>>),
        recommendation |-> recommendation_of(capped) ]

\* ------------------------------------------------------ PaymentOrchestrator
\* a rail selection whose high-risk rule starts at the threshold itself
select_settlement_rail_at_threshold(payment_data, risk_score) ==
  IF risk_score >= 700 THEN "visa_direct"
  ELSE IF payment_data.currency = "SZL" /\ payment_data.amount <= ESWATINI_MAX_AMOUNT
       THEN "eswatini_switch"
  ELSE "visa_direct"

\* PaymentOrchestrator.select_settlement_rail; risk_score in 1/1000
select_settlement_rail(payment_data, risk_score) ==
  IF risk_score > 700 THEN "visa_direct"
  ELSE IF payment_data.currency = "SZL" /\ payment_data.amount <= ESWATINI_MAX_AMOUNT
       THEN "eswatini_switch"
  ELSE "visa_direct"

\* round(fee, 2) and round(amount - fee, 2) in cents, fee = amount * fee_rate;
\* ties_up holds the fields whose exact half-cent is rounded upwards
settlement_fee(amount, permille, ties_up) ==
  RoundNearest(amount * permille, 10, "fee" \in ties_up)
settlement_net(amount, permille, ties_up) ==
  RoundNearest(amount * 1000 - amount * permille, 10, "net_amount" \in ties_up)

\* a local rail that reports its failures with the international rail's code
process_eswatini_switch_network_error(payment_data, success, ties_up) ==
  IF success
  THEN [ status |-> "completed", transaction_id |-> "ESW_",
         settlement_time |-> "T+0",
         fee |-> settlement_fee(payment_data.amount, ESWATINI_FEE_PERMILLE, ties_up),
         net_amount |-> settlement_net(payment_data.amount, ESWATINI_FEE_PERMILLE, ties_up),
         rail |-> "Eswatini National Payment Switch" ]
  ELSE [ status |-> "failed", error_code |-> "NETWORK_ERROR",
         message |-> <<"Transaction declined by issuing bank">>,
         rail |-> "Eswatini National Payment Switch" ]

\* the directions round() can take at a tie
TiesUp == SUBSET {"fee", "net_amount"}

\* PaymentOrchestrator._process_eswatini_switch; success is random.random() < 0.95
process_eswatini_switch(payment_data, success, ties_up) ==
  IF success
  THEN [ status |-> "completed", transaction_id |-> "ESW_",
         settlement_time |-> "T+0",
         fee |-> settlement_fee(payment_data.amount, ESWATINI_FEE_PERMILLE, ties_up),
         net_amount |-> settlement_net(payment_data.amount, ESWATINI_FEE_PERMILLE, ties_up),
         rail |-> "Eswatini National Payment Switch" ]
  ELSE [ status |-> "failed", error_code |-> "INSUFFICIENT_FUNDS",
         message |-> <<"Transaction declined by issuing bank">>,
         rail |-> "Eswatini National Payment Switch" ]

\* an international rail that charges the local rail's fee rate
process_visa_direct_local_fee(payment_data, success, ties_up) ==
  IF success
  THEN [ status |-> "completed", transaction_id |-> "VD_",
         settlement_time |-> "T+1",
         fee |-> settlement_fee(payment_data.amount, ESWATINI_FEE_PERMILLE, ties_up),
         net_amount |-> settlement_net(payment_data.amount, ESWATINI_FEE_PERMILLE, ties_up),
         rail |-> "Visa Direct" ]
  ELSE [ status |-> "failed", error_code |-> "NETWORK_ERROR",
         message |-> <<"Temporary network issue, please retry">>,
         rail |-> "Visa Direct" ]

\* PaymentOrchestrator._process_visa_direct; success is random.random() < 0.92
process_visa_direct(payment_data, success, ties_up) ==
  IF success
  THEN [ status |-> "completed", transaction_id |-> "VD_",
         settlement_time |-> "T+1",
         fee |-> settlement_fee(payment_data.amount, VISA_FEE_PERMILLE, ties_up),
         net_amount |-> settlement_net(payment_data.amount, VISA_FEE_PERMILLE, ties_up),
         rail |-> "Visa Direct" ]
  ELSE [ status |-> "failed", error_code |-> "NETWORK_ERROR",
         message |-> <<"Temporary network issue, please retry">>,
         rail |-> "Visa Direct" ]

\* PaymentOrchestrator.process_settlement
process_settlement(payment_data, settlement_rail, success, ties_up) ==
  IF settlement_rail = "eswatini_switch"
  THEN process_eswatini_switch(payment_data, success, ties_up)
  ELSE process_visa_direct(payment_data, success, ties_up)

\* ------------------------------------------------------------------ ledger
\* a log_transaction that updates the newest row in place instead of inserting
log_transaction_replaces_last(log, step, status, t) ==
  IF log = <<>>
  THEN <<[step |-> step, status |-> status, timestamp |-> t]>>
  ELSE [log EXCEPT ![Len(log)] = [step |-> step, status |-> status, timestamp |-> t]]

\* main.log_transaction: one Transaction row (payment_id is the key of
\* transactions), added and committed
log_transaction(log, step, status, t) ==
  Append(log, [step |-> step, status |-> status, timestamp |-> t])

\* a Payment constructed with a risk score already set
NewPayment_WithScore(payment_request) ==
  [ merchant_id |-> payment_request.merchant_id,
    amount |-> payment_request.amount,
    currency |-> payment_request.currency,
    status |-> "pending",
    risk_score |-> Some(0),
    settlement_rail |-> None,
    settlement_response |-> None,
    error_message |-> None,
    completed_at |-> None ]

\* Payment(...) as create_payment constructs it; unset columns are NULL
NewPayment(payment_request) ==
  [ merchant_id |-> payment_request.merchant_id,
    amount |-> payment_request.amount,
    currency |-> payment_request.currency,
    status |-> "pending",
    risk_score |-> None,
    settlement_rail |-> None,
    settlement_response |-> None,
    error_message |-> None,
    completed_at |-> None ]

\* the locals of process_payment_pipeline
NewTask(payment_request) ==
  [ payment_request |-> payment_request,
    risk_assessment |-> None,
    settlement_result |-> None,
    e |-> None ]

Created == DOMAIN payments

\* positions of the task at which the next statement ends in db.commit() inside the try block
CommitPcs == {"queued", "assess", "decide", "declined_log", "route", "log_settlement", "final_commit"}
\* positions inside the except block
HandlerPcs == {"except", "except_log"}
\* the task function has returned or its exception has left it
Finished(p) == pc[p] \in {"done", "escaped"}

Init ==
  /\ payments = <<>>
  /\ transactions = <<>>
  /\ session = <<>>
  /\ pc = <<>>
  /\ local = <<>>
  /\ rate_limits = [m \in MerchantIds |-> <<>>]
  /\ now = 0
  /\ background_tasks = <<>>
  /\ users = <<>>
  /\ user_sessions = <<>>
  /\ qr_codes = <<>>
  /\ call = None

\* ----------------------------------------------------------- create_payment
\* the HTTP status create_payment answers a request with
create_payment_code(payment_request) ==
  IF ~authenticate_request(payment_request.merchant_id) THEN 401
  ELSE IF ~check_rate_limit(rate_limits, payment_request.merchant_id, now)[1] THEN 429
  ELSE 200

\* the detail of the HTTPException create_payment raises (lines 205, 208)
create_payment_detail(payment_request) ==
  IF create_payment_code(payment_request) = 401 THEN Some("Invalid merchant credentials")
  ELSE IF create_payment_code(payment_request) = 429 THEN Some("Rate limit exceeded")
  ELSE None

\* uuid.uuid4(), the default of Payment.id: an id no row has
new_payment_id == Cardinality(Created) + 1

\* an add_task that registers the task function twice
add_task_twice(tasks, payment_id) ==
  IF payment_id \in DOMAIN tasks
  THEN [tasks EXCEPT ![payment_id] = @ + 2]
  ELSE tasks @@ (payment_id :> 2)

\* background_tasks.add_task(process_payment_pipeline, payment.id, payment_request)
add_task(tasks, payment_id) ==
  IF payment_id \in DOMAIN tasks
  THEN [tasks EXCEPT ![payment_id] = @ + 1]
  ELSE tasks @@ (payment_id :> 1)

\* the PaymentResponse create_payment returns (lines 229-234)
create_payment_response(payment_id) ==
  [ payment_id |-> payment_id,
    status |-> "pending",
    message |-> "Payment initiated successfully",
    estimated_completion |-> "2-5 seconds" ]

\* POST /api/v1/payments (lines 203-234): what the handler does to the
\* limiter, the payment rows, the audit trail and the background tasks
create_payment_rows(payment_request) ==
  IF create_payment_code(payment_request) = 401
  THEN UNCHANGED <<payments, transactions, session, pc, local, rate_limits, now, background_tasks>>
  ELSE LET rl == check_rate_limit(rate_limits, payment_request.merchant_id, now)
           id == new_payment_id
       IN  /\ rate_limits' = rl[2]
           /\ IF create_payment_code(payment_request) = 429
              THEN UNCHANGED <<payments, transactions, session, pc, local, now, background_tasks>>
              ELSE /\ payments' = payments @@ (id :> NewPayment(payment_request))
                   /\ session' = session @@ (id :> NewPayment(payment_request))
                   /\ transactions' = transactions @@
                         (id :> log_transaction(<<>>, "api_gateway", "success", now))
                   /\ background_tasks' = add_task(background_tasks, id)
                   /\ pc' = pc @@ (id :> "queued")
                   /\ local' = local @@ (id :> NewTask(payment_request))
                   /\ UNCHANGED now

\* POST /api/v1/payments called as the endpoint
create_payment(payment_request) ==
  /\ create_payment_rows(payment_request)
  /\ UNCHANGED <<call, users, user_sessions, qr_codes>>

\* create_payment when log_transaction (line 222) raises: the Payment row is
\* committed (line 219), no audit entry is written, no task is scheduled
create_payment_log_raises(payment_request) ==
  /\ create_payment_code(payment_request) = 200
  /\ LET rl == check_rate_limit(rate_limits, payment_request.merchant_id, now)
         id == new_payment_id
     IN  /\ rate_limits' = rl[2]
         /\ payments' = payments @@ (id :> NewPayment(payment_request))
         /\ session' = session @@ (id :> NewPayment(payment_request))
         /\ transactions' = transactions @@ (id :> <<>>)
         /\ background_tasks' = background_tasks @@ (id :> 0)
         /\ pc' = pc @@ (id :> "unscheduled")
         /\ local' = local @@ (id :> NewTask(payment_request))
         /\ UNCHANGED <<now, call, users, user_sessions, qr_codes>>

\* the two above while fewer than MaxPayments payments exist
CreatePayment(payment_request) ==
  /\ Cardinality(Created) < MaxPayments
  /\ create_payment(payment_request)

CreatePaymentLogRaises(payment_request) ==
  /\ Cardinality(Created) < MaxPayments
  /\ create_payment_log_raises(payment_request)

\* -------------------------------------------------- process_payment_pipeline
\* the session's pending assignments are flushed and committed
Commit(p, obj) ==
  /\ session' = [session EXCEPT ![p] = obj]
  /\ payments' = [payments EXCEPT ![p] = obj]

Goto(p, label) == pc' = [pc EXCEPT ![p] = label]

\* a pipeline start that goes straight to PROCESSING
StartPipeline_SkipsRiskCheck(p) ==
  /\ p \in Created /\ pc[p] = "queued"
  /\ Commit(p, [session[p] EXCEPT !.status = "processing"])
  /\ Goto(p, "assess")
  /\ UNCHANGED <<transactions, local, rate_limits, now, background_tasks, call, users, user_sessions, qr_codes>>

\* lines 242-244: load the payment, status RISK_CHECK, commit
StartPipeline(p) ==
  /\ p \in Created /\ pc[p] = "queued"
  /\ Commit(p, [session[p] EXCEPT !.status = "risk_check"])
  /\ Goto(p, "assess")
  /\ UNCHANGED <<transactions, local, rate_limits, now, background_tasks, call, users, user_sessions, qr_codes>>

\* a risk step that logs the assessment but never assigns payment.risk_score
AssessRisk_NoScore(p, current_hour, velocity, ml_anomaly_score) ==
  /\ p \in Created /\ pc[p] = "assess"
  /\ local' = [local EXCEPT ![p].risk_assessment =
        Some(assess_risk(local[p].payment_request, current_hour, velocity, ml_anomaly_score))]
  /\ transactions' = [transactions EXCEPT
                        ![p] = log_transaction(@, "risk_engine", "completed", now)]
  /\ Goto(p, "decide")
  /\ UNCHANGED <<payments, session, rate_limits, now, background_tasks, call, users, user_sessions, qr_codes>>

\* lines 246-253: assess_risk returns; the score is assigned and committed
\* together with the (risk_engine, completed) entry
AssessRisk(p, current_hour, velocity, ml_anomaly_score) ==
  /\ p \in Created /\ pc[p] = "assess"
  /\ LET risk_assessment ==
           assess_risk(local[p].payment_request, current_hour, velocity, ml_anomaly_score)
     IN  /\ Commit(p, [session[p] EXCEPT !.risk_score = Some(risk_assessment.risk_score)])
         /\ local' = [local EXCEPT ![p].risk_assessment = Some(risk_assessment)]
  /\ transactions' = [transactions EXCEPT
                        ![p] = log_transaction(@, "risk_engine", "completed", now)]
  /\ Goto(p, "decide")
  /\ UNCHANGED <<rate_limits, now, background_tasks, call, users, user_sessions, qr_codes>>

\* a decline that marks the payment FAILED and goes on to routing
DeclinePayment_ThenRoutes(p) ==
  /\ p \in Created /\ pc[p] = "decide"
  /\ local[p].risk_assessment[1].recommendation = "DECLINE"
  /\ Commit(p, [session[p] EXCEPT
                  !.status = "failed",
                  !.error_message = Some(<<"Transaction declined due to high risk score">>)])
  /\ Goto(p, "route")
  /\ UNCHANGED <<transactions, local, rate_limits, now, background_tasks, call, users, user_sessions, qr_codes>>

\* lines 256-259: recommendation DECLINE: status FAILED and the reason, committed
DeclinePayment(p) ==
  /\ p \in Created /\ pc[p] = "decide"
  /\ local[p].risk_assessment[1].recommendation = "DECLINE"
  /\ Commit(p, [session[p] EXCEPT
                  !.status = "failed",
                  !.error_message = Some(<<"Transaction declined due to high risk score">>)])
  /\ Goto(p, "declined_log")
  /\ UNCHANGED <<transactions, local, rate_limits, now, background_tasks, call, users, user_sessions, qr_codes>>

\* lines 260-264: the (risk_engine, declined) entry, then return
LogDeclined(p) ==
  /\ p \in Created /\ pc[p] = "declined_log"
  /\ transactions' = [transactions EXCEPT
                        ![p] = log_transaction(@, "risk_engine", "declined", now)]
  /\ Goto(p, "done")
  /\ UNCHANGED <<payments, session, local, rate_limits, now, background_tasks, call, users, user_sessions, qr_codes>>

\* a step that holds a REVIEW payment in RISK_CHECK while the run goes on
BeginProcessing_HoldsReview(p) ==
  /\ p \in Created /\ pc[p] = "decide"
  /\ local[p].risk_assessment[1].recommendation # "DECLINE"
  /\ Commit(p, [session[p] EXCEPT !.status =
        IF local[p].risk_assessment[1].recommendation = "REVIEW" THEN "risk_check" ELSE "processing"])
  /\ Goto(p, "route")
  /\ UNCHANGED <<transactions, local, rate_limits, now, background_tasks, call, users, user_sessions, qr_codes>>

\* lines 267-268: any other recommendation: status PROCESSING, committed
BeginProcessing(p) ==
  /\ p \in Created /\ pc[p] = "decide"
  /\ local[p].risk_assessment[1].recommendation # "DECLINE"
  /\ Commit(p, [session[p] EXCEPT !.status = "processing"])
  /\ Goto(p, "route")
  /\ UNCHANGED <<transactions, local, rate_limits, now, background_tasks, call, users, user_sessions, qr_codes>>

\* a routing step that commits the rail without its audit entry
SelectRail_NoAudit(p) ==
  /\ p \in Created /\ pc[p] = "route"
  /\ Commit(p, [session[p] EXCEPT !.settlement_rail =
        Some(select_settlement_rail(local[p].payment_request,
                                    local[p].risk_assessment[1].risk_score))])
  /\ Goto(p, "settle")
  /\ UNCHANGED <<transactions, local, rate_limits, now, background_tasks, call, users, user_sessions, qr_codes>>

\* lines 270-276: the rail is selected, assigned and committed together with
\* the (orchestrator, routing) entry
SelectRail(p) ==
  /\ p \in Created /\ pc[p] = "route"
  /\ LET settlement_rail ==
           select_settlement_rail(local[p].payment_request,
                                  local[p].risk_assessment[1].risk_score)
     IN  Commit(p, [session[p] EXCEPT !.settlement_rail = Some(settlement_rail)])
  /\ transactions' = [transactions EXCEPT
                        ![p] = log_transaction(@, "orchestrator", "routing", now)]
  /\ Goto(p, "settle")
  /\ UNCHANGED <<local, rate_limits, now, background_tasks, call, users, user_sessions, qr_codes>>

\* lines 279-284 and 286-288: process_settlement returns; payload, status and
\* completed_at or error_message are assigned to the Payment object (not yet committed)
Settle(p, success, ties_up) ==
  /\ p \in Created /\ pc[p] = "settle"
  /\ LET settlement_result ==
           process_settlement(local[p].payment_request, session[p].settlement_rail[1],
                              success, ties_up)
     IN  /\ local' = [local EXCEPT ![p].settlement_result = Some(settlement_result)]
         /\ session' = [session EXCEPT ![p] =
              IF settlement_result.status = "completed"
              THEN [@ EXCEPT !.settlement_response = Some(settlement_result),
                             !.status = "completed",
                             !.completed_at = Some(now)]
              ELSE [@ EXCEPT !.settlement_response = Some(settlement_result),
                             !.status = "failed",
                             !.error_message = Some(settlement_result.message)]]
  /\ Goto(p, "log_settlement")
  /\ UNCHANGED <<payments, transactions, rate_limits, now, background_tasks, call, users, user_sessions, qr_codes>>

\* a settlement log step that sends a failed settlement back to the processor
LogSettlement_Retries(p) ==
  /\ p \in Created /\ pc[p] = "log_settlement"
  /\ Commit(p, session[p])
  /\ transactions' = [transactions EXCEPT
        ![p] = log_transaction(@, "settlement", local[p].settlement_result[1].status, now)]
  /\ Goto(p, IF local[p].settlement_result[1].status = "failed" THEN "settle" ELSE "final_commit")
  /\ UNCHANGED <<local, rate_limits, now, background_tasks, call, users, user_sessions, qr_codes>>

\* line 285 or 289: the (settlement, completed|failed) entry; its commit also
\* writes the assignments of lines 280-288
LogSettlement(p) ==
  /\ p \in Created /\ pc[p] = "log_settlement"
  /\ Commit(p, session[p])
  /\ transactions' = [transactions EXCEPT
        ![p] = log_transaction(@, "settlement", local[p].settlement_result[1].status, now)]
  /\ Goto(p, "final_commit")
  /\ UNCHANGED <<local, rate_limits, now, background_tasks, call, users, user_sessions, qr_codes>>

\* line 291: db.commit(), then the finally block
FinalCommit(p) ==
  /\ p \in Created /\ pc[p] = "final_commit"
  /\ Commit(p, session[p])
  /\ Goto(p, "done")
  /\ UNCHANGED <<transactions, local, rate_limits, now, background_tasks, call, users, user_sessions, qr_codes>>

\* an exception e is raised inside the try block: the session is rolled back
\* (the Payment object shows the committed row again) and control enters the handler
Raise(p, e) ==
  /\ session' = [session EXCEPT ![p] = payments[p]]
  /\ local' = [local EXCEPT ![p].e = Some(e)]
  /\ Goto(p, "except")
  /\ UNCHANGED <<payments, transactions, rate_limits, now, background_tasks, call, users, user_sessions, qr_codes>>

\* risk_engine.assess_risk raises (line 246)
AssessRiskRaises(p) ==
  /\ p \in Created /\ pc[p] = "assess"
  /\ Raise(p, "RiskEngineError")

\* orchestrator.select_settlement_rail raises (line 270)
SelectRailRaises(p) ==
  /\ p \in Created /\ pc[p] = "route"
  /\ Raise(p, "OrchestratorError")

\* orchestrator.process_settlement raises (line 279)
SettleRaises(p) ==
  /\ p \in Created /\ pc[p] = "settle"
  /\ Raise(p, "SettlementError")

\* a db.commit() of the try block raises (lines 244, 249, 259, 260, 268, 273,
\* 285/289, 291): nothing of the statement is stored
CommitRaises(p) ==
  /\ p \in Created /\ pc[p] \in CommitPcs
  /\ Raise(p, "LedgerError")

\* a handler that marks the payment FAILED without a message
HandleException_NoMessage(p) ==
  /\ p \in Created /\ pc[p] = "except"
  /\ Commit(p, [session[p] EXCEPT !.status = "failed"])
  /\ Goto(p, "except_log")
  /\ UNCHANGED <<transactions, local, rate_limits, now, background_tasks, call, users, user_sessions, qr_codes>>

\* lines 294-297: the handler loads the payment, status FAILED, "System error: e", commit
HandleException(p) ==
  /\ p \in Created /\ pc[p] = "except"
  /\ Commit(p, [session[p] EXCEPT
                  !.status = "failed",
                  !.error_message = Some(<<"System error: ", local[p].e[1]>>)])
  /\ Goto(p, "except_log")
  /\ UNCHANGED <<transactions, local, rate_limits, now, background_tasks, call, users, user_sessions, qr_codes>>

\* lines 299-301: the (system, error) entry
LogSystemError(p) ==
  /\ p \in Created /\ pc[p] = "except_log"
  /\ transactions' = [transactions EXCEPT
                        ![p] = log_transaction(@, "system", "error", now)]
  /\ Goto(p, "done")
  /\ UNCHANGED <<payments, session, local, rate_limits, now, background_tasks, call, users, user_sessions, qr_codes>>

\* a db.commit() of the except block raises (line 297 or 299): nothing encloses
\* the handler, the exception leaves process_payment_pipeline
HandlerRaises(p) ==
  /\ p \in Created /\ pc[p] \in HandlerPcs
  /\ session' = [session EXCEPT ![p] = payments[p]]
  /\ Goto(p, "escaped")
  /\ UNCHANGED <<payments, transactions, local, rate_limits, now, background_tasks, call, users, user_sessions, qr_codes>>

\* -------------------------------------------------------- get_payment_status
\* Transaction rows of a payment ordered by timestamp (stable)
RECURSIVE order_by_timestamp(_)
order_by_timestamp(rows) ==
  IF rows = <<>> THEN <<>>
  ELSE LET m == CHOOSE i \in 1..Len(rows) :
                  /\ \A j \in 1..Len(rows) : rows[i].timestamp <= rows[j].timestamp
                  /\ \A j \in 1..(i - 1) : rows[j].timestamp > rows[i].timestamp
       IN  <<rows[m]>> \o order_by_timestamp(
                             [k \in 1..(Len(rows) - 1) |-> IF k < m THEN rows[k] ELSE rows[k + 1]])

\* the body get_payment_status returns for an existing payment
get_payment_status(payment_id) ==
  [ payment_id |-> payment_id,
    status |-> payments[payment_id].status,
    amount |-> payments[payment_id].amount,
    currency |-> payments[payment_id].currency,
    risk_score |-> payments[payment_id].risk_score,
    settlement_rail |-> payments[payment_id].settlement_rail,
    settlement_details |-> payments[payment_id].settlement_response,
    error_message |-> payments[payment_id].error_message,
    completed_at |-> payments[payment_id].completed_at,
    transaction_log |-> order_by_timestamp(transactions[payment_id]) ]

\* the HTTP status get_payment_status answers with
get_payment_status_code(payment_id) == IF payment_id \in Created THEN 200 ELSE 404

\* a status query that leaves an audit entry of its own
GetPaymentStatus_Touches(payment_id) ==
  /\ payment_id \in Created
  /\ transactions' = [transactions EXCEPT
                        ![payment_id] = log_transaction(@, "api_gateway", "query", now)]
  /\ UNCHANGED <<payments, session, pc, local, rate_limits, now, background_tasks, call, users, user_sessions, qr_codes>>

\* GET /api/v1/payments/{payment_id} (lines 305-341): queries only
GetPaymentStatus(payment_id) ==
  /\ get_payment_status_code(payment_id) \in {200, 404}
  /\ UNCHANGED vars

\* time passes
Tick ==
  /\ now < MaxClock
  /\ now' = now + 1
  /\ UNCHANGED <<payments, transactions, session, pc, local, rate_limits, background_tasks, call, users, user_sessions, qr_codes>>

Next ==
  \/ \E r \in Requests : CreatePayment(r)
  \/ \E r \in Requests : CreatePaymentLogRaises(r)
  \/ \E p \in PaymentIds : StartPipeline(p)
  \/ \E p \in PaymentIds, h \in Hours, v \in BOOLEAN, ml \in MlAnomalyScores : AssessRisk(p, h, v, ml)
  \/ \E p \in PaymentIds : DeclinePayment(p)
  \/ \E p \in PaymentIds : LogDeclined(p)
  \/ \E p \in PaymentIds : BeginProcessing(p)
  \/ \E p \in PaymentIds : SelectRail(p)
  \/ \E p \in PaymentIds, success \in BOOLEAN, ties_up \in TiesUp : Settle(p, success, ties_up)
  \/ \E p \in PaymentIds : LogSettlement(p)
  \/ \E p \in PaymentIds : FinalCommit(p)
  \/ \E p \in PaymentIds : AssessRiskRaises(p)
  \/ \E p \in PaymentIds : SelectRailRaises(p)
  \/ \E p \in PaymentIds : SettleRaises(p)
  \/ \E p \in PaymentIds : CommitRaises(p)
  \/ \E p \in PaymentIds : HandleException(p)
  \/ \E p \in PaymentIds : LogSystemError(p)
  \/ \E p \in PaymentIds : HandlerRaises(p)
  \/ \E p \in PaymentIds : GetPaymentStatus(p)
  \/ Tick

Spec == Init /\ [][Next]_vars

\* ------------------------------------------------------ concurrent requests
\* create_payment called while the tasks of earlier payments are at any position
ConcurrentIds == 1..MaxConcurrent

ConcurrentRequests ==
  { [merchant_id |-> MERCH_001, amount |-> 6000, currency |-> "SZL", customer_location |-> Some("Lagos")],
    [merchant_id |-> SHOP_77, amount |-> 6000, currency |-> "SZL", customer_location |-> None] }

ConcurrentCreatePayment(payment_request) ==
  /\ Cardinality(Created) < MaxConcurrent
  /\ create_payment(payment_request)

ConcurrentNext ==
  \/ \E r \in ConcurrentRequests : ConcurrentCreatePayment(r)
  \/ \E p \in ConcurrentIds : StartPipeline(p)
  \/ \E p \in ConcurrentIds, h \in Hours, v \in BOOLEAN, ml \in MlAnomalyScores : AssessRisk(p, h, v, ml)
  \/ \E p \in ConcurrentIds : DeclinePayment(p)
  \/ \E p \in ConcurrentIds : LogDeclined(p)
  \/ \E p \in ConcurrentIds : BeginProcessing(p)
  \/ \E p \in ConcurrentIds : SelectRail(p)
  \/ \E p \in ConcurrentIds, success \in BOOLEAN, ties_up \in TiesUp : Settle(p, success, ties_up)
  \/ \E p \in ConcurrentIds : LogSettlement(p)
  \/ \E p \in ConcurrentIds : FinalCommit(p)
  \/ \E p \in ConcurrentIds : CommitRaises(p)
  \/ \E p \in ConcurrentIds : HandleException(p)
  \/ \E p \in ConcurrentIds : LogSystemError(p)
  \/ \E p \in ConcurrentIds : HandlerRaises(p)
  \/ \E p \in ConcurrentIds : GetPaymentStatus(p)

ConcurrentSpec == Init /\ [][ConcurrentNext]_vars

\* ------------------------------------------------------- APPROVE and REVIEW
\* two payments of one request, assessed at hours that give APPROVE and REVIEW
ReviewRequests ==
  { [merchant_id |-> MERCH_001, amount |-> 1000, currency |-> "SZL", customer_location |-> None] }

ReviewNext ==
  \/ \E r \in ReviewRequests : ConcurrentCreatePayment(r)
  \/ \E p \in ConcurrentIds : StartPipeline(p)
  \/ \E p \in ConcurrentIds, h \in Hours, v \in BOOLEAN, ml \in MlAnomalyScores : AssessRisk(p, h, v, ml)
  \/ \E p \in ConcurrentIds : BeginProcessing(p)
  \/ \E p \in ConcurrentIds : SelectRail(p)
  \/ \E p \in ConcurrentIds, success \in BOOLEAN, ties_up \in TiesUp : Settle(p, success, ties_up)
  \/ \E p \in ConcurrentIds : LogSettlement(p)
  \/ \E p \in ConcurrentIds : FinalCommit(p)
  \/ \E p \in ConcurrentIds : CommitRaises(p)
  \/ \E p \in ConcurrentIds : HandleException(p)
  \/ \E p \in ConcurrentIds : LogSystemError(p)
  \/ \E p \in ConcurrentIds : HandlerRaises(p)
  \/ \E p \in ConcurrentIds : GetPaymentStatus(p)

ReviewSpec == Init /\ [][ReviewNext]_vars

\* ------------------------------------------------------------------ ingress
\* create_payment called often enough to exhaust the rate limit; the tasks it
\* schedules have not started
IngressRequests ==
  { [merchant_id |-> MERCH_001, amount |-> 1000, currency |-> "SZL", customer_location |-> None],
    [merchant_id |-> SHOP_77, amount |-> 1000, currency |-> "SZL", customer_location |-> None] }

IngressCreatePayment(payment_request) ==
  /\ Cardinality(Created) < MaxIngressPayments
  /\ create_payment(payment_request)

IngressCreatePaymentLogRaises(payment_request) ==
  /\ Cardinality(Created) < MaxIngressPayments
  /\ create_payment_log_raises(payment_request)

IngressNext ==
  \/ \E r \in IngressRequests : IngressCreatePayment(r)
  \/ \E r \in IngressRequests : IngressCreatePaymentLogRaises(r)
  \/ \E p \in {1, MaxIngressPayments} : GetPaymentStatus(p)
  \/ Tick

IngressSpec == Init /\ [][IngressNext]_vars

\* ------------------------------------------- the service functions on their own
\* every argument a function is applied to, with the returned value still open
Currencies == {"SZL", "USD", "ZAR"}
RailAmounts == {1, 5000, 9999, 10000, 10001, 100000}
RailRiskScores == {0, 300, 699, 700, 701, 1000}

SelectRailCalls ==
  { [fn |-> "select_settlement_rail",
     args |-> [payment_data |-> [currency |-> c, amount |-> a], risk_score |-> s],
     result |-> None] : c \in Currencies, a \in RailAmounts, s \in RailRiskScores }

RiskAmounts == {1000, 5000, 5001}
RiskLocations == {None, Some("Manzini"), Some("Lagos")}
RiskHours == {0, 5, 6, 14}
RiskMlAnomalyScores == {0, 996, 1996, 2996, 3000}

AssessRiskCalls ==
  { [fn |-> "assess_risk",
     args |-> [payment_data |-> [merchant_id |-> MERCH_001, amount |-> a, customer_location |-> l],
               current_hour |-> h, velocity |-> v, ml_anomaly_score |-> ml],
     result |-> None] :
       a \in RiskAmounts, l \in RiskLocations, h \in RiskHours, v \in BOOLEAN,
       ml \in RiskMlAnomalyScores }

SettlementAmounts == {1, 3, 1000, 2500, 9999, 50000}

ProcessSettlementCalls ==
  { [fn |-> "process_settlement",
     args |-> [payment_data |-> [amount |-> a], settlement_rail |-> r, success |-> ok,
               ties_up |-> t],
     result |-> None] :
       a \in SettlementAmounts, r \in SettlementRail, ok \in BOOLEAN, t \in TiesUp }

FunctionInit ==
  /\ payments = <<>>
  /\ transactions = <<>>
  /\ session = <<>>
  /\ pc = <<>>
  /\ local = <<>>
  /\ rate_limits = [m \in MerchantIds |-> <<>>]
  /\ now = 0
  /\ background_tasks = <<>>
  /\ users = <<>>
  /\ user_sessions = <<>>
  /\ qr_codes = <<>>
  /\ call \in SelectRailCalls \cup AssessRiskCalls \cup ProcessSettlementCalls

Returns(value) ==
  /\ call.result = None
  /\ call' = [call EXCEPT !.result = Some(value)]
  /\ UNCHANGED <<payments, transactions, session, pc, local, rate_limits, now, background_tasks,
               users, user_sessions, qr_codes>>

ApplySelectSettlementRail ==
  /\ call.fn = "select_settlement_rail"
  /\ Returns(select_settlement_rail(call.args.payment_data, call.args.risk_score))

ApplyAssessRisk ==
  /\ call.fn = "assess_risk"
  /\ Returns(assess_risk(call.args.payment_data, call.args.current_hour,
                         call.args.velocity, call.args.ml_anomaly_score))

ApplyProcessSettlement ==
  /\ call.fn = "process_settlement"
  /\ Returns(process_settlement(call.args.payment_data, call.args.settlement_rail,
                                call.args.success, call.args.ties_up))

FunctionNext ==
  \/ ApplySelectSettlementRail
  \/ ApplyAssessRisk
  \/ ApplyProcessSettlement

FunctionSpec == FunctionInit /\ [][FunctionNext]_vars

\* ----------------------------------------------------------------- QR codes
\* merchants registered before a code is generated; MerchantService gives
\* every registered merchant an id that starts with MERCH_ (lines 23-29), so
\* authenticate_request answers True for them on either of its two paths
QrOwners == {MERCH_001}

QrCodeIds == 1..MaxQrCodes

\* QRCodeRequest.max_usage: None or 0 for unlimited, else the limit
MaxUsages == {None} \cup {Some(n) : n \in 0..MaxUsageLimit}

\* QRCodeRequest.expires_in_minutes: no expiry, or an expiry already past
ExpiresInMinutes == {None, Some(-1)}

\* Python truth of a nullable number: neither None nor 0
Truthy(x) == x # None /\ x[1] # 0

\* QRCode(...) as generate_qr_code constructs it (lines 116-125)
NewQRCode(merchant_id, max_usage, expires_in_minutes) ==
  [ merchant_id |-> merchant_id,
    expires_at |-> IF Truthy(expires_in_minutes)
                   THEN Some(now + expires_in_minutes[1] * MinuteTicks)
                   ELSE None,
    is_active |-> TRUE,
    usage_count |-> 0,
    max_usage |-> max_usage ]

\* MerchantService.generate_qr_code for a registered merchant
GenerateQrCode(merchant_id, max_usage, expires_in_minutes) ==
  /\ merchant_id \in QrOwners
  /\ Cardinality(DOMAIN qr_codes) < MaxQrCodes
  /\ qr_codes' = qr_codes @@
       ((Cardinality(DOMAIN qr_codes) + 1) :> NewQRCode(merchant_id, max_usage, expires_in_minutes))
  /\ UNCHANGED <<payments, transactions, session, pc, local, rate_limits, now, background_tasks,
                 call, users, user_sessions>>

\* MerchantService.validate_qr_code: the message of the ValueError it raises,
\* None when it returns the code
validate_qr_code(codes, qr_code_id, t) ==
  IF qr_code_id \notin DOMAIN codes \/ ~codes[qr_code_id].is_active
  THEN Some("QR code not found or inactive")
  ELSE IF codes[qr_code_id].expires_at # None /\ t > codes[qr_code_id].expires_at[1]
  THEN Some("QR code has expired")
  ELSE IF Truthy(codes[qr_code_id].max_usage)
          /\ codes[qr_code_id].usage_count >= codes[qr_code_id].max_usage[1]
  THEN Some("QR code usage limit exceeded")
  ELSE None

\* an increment that deactivates the code only above its limit
increment_qr_usage_late(codes, qr_code_id) ==
  IF qr_code_id \notin DOMAIN codes THEN codes
  ELSE LET count == codes[qr_code_id].usage_count + 1
       IN  [codes EXCEPT ![qr_code_id].usage_count = count,
                         ![qr_code_id].is_active =
                            IF Truthy(codes[qr_code_id].max_usage)
                               /\ count > codes[qr_code_id].max_usage[1]
                            THEN FALSE ELSE @]

\* MerchantService.increment_qr_usage: the table after its commit
increment_qr_usage(codes, qr_code_id) ==
  IF qr_code_id \notin DOMAIN codes THEN codes
  ELSE LET count == codes[qr_code_id].usage_count + 1
       IN  [codes EXCEPT ![qr_code_id].usage_count = count,
                         ![qr_code_id].is_active =
                            IF Truthy(codes[qr_code_id].max_usage)
                               /\ count >= codes[qr_code_id].max_usage[1]
                            THEN FALSE ELSE @]

\* PaymentInitiation: qr_code_id is optional, amount is required (gt=0), so
\* the amount of the code is never taken (line 152)
PaymentInitiations ==
  { [qr_code_id |-> q, merchant_id |-> m, amount |-> 1000] :
      q \in {None} \cup {Some(i) : i \in QrCodeIds}, m \in MerchantIds }

\* the PaymentRequest initiate_payment builds (lines 162-169)
initiated_payment_request(payment_initiation) ==
  [ merchant_id |-> payment_initiation.merchant_id,
    amount |-> payment_initiation.amount,
    currency |-> "SZL",
    customer_location |-> None ]

\* the ValueError of the QR block of initiate_payment, None when it passes
initiate_payment_error(payment_initiation) ==
  IF payment_initiation.qr_code_id = None THEN None
  ELSE validate_qr_code(qr_codes, payment_initiation.qr_code_id[1], now)

\* the HTTP status initiate_payment answers with
initiate_payment_code(payment_initiation) ==
  IF initiate_payment_error(payment_initiation) # None THEN 400
  ELSE create_payment_code(initiated_payment_request(payment_initiation))

\* an initiate_payment that counts a use only for an accepted payment
initiate_payment_counts_accepted(payment_initiation) ==
  /\ call' = [fn |-> "initiate_payment", args |-> payment_initiation,
              result |-> Some(initiate_payment_code(payment_initiation))]
  /\ IF initiate_payment_error(payment_initiation) # None
     THEN UNCHANGED <<payments, transactions, session, pc, local, rate_limits, now,
                      background_tasks, qr_codes>>
     ELSE /\ qr_codes' = IF payment_initiation.qr_code_id = None
                            \/ initiate_payment_code(payment_initiation) # 200
                         THEN qr_codes
                         ELSE increment_qr_usage(qr_codes, payment_initiation.qr_code_id[1])
          /\ create_payment_rows(initiated_payment_request(payment_initiation))
  /\ UNCHANGED <<users, user_sessions>>

\* POST /api/v1/payments/initiate (lines 138-172); call keeps the request and
\* the status it was answered with
initiate_payment(payment_initiation) ==
  /\ call' = [fn |-> "initiate_payment", args |-> payment_initiation,
              result |-> Some(initiate_payment_code(payment_initiation))]
  /\ IF initiate_payment_error(payment_initiation) # None
     THEN UNCHANGED <<payments, transactions, session, pc, local, rate_limits, now,
                      background_tasks, qr_codes>>
     ELSE /\ qr_codes' = IF payment_initiation.qr_code_id = None THEN qr_codes
                         ELSE increment_qr_usage(qr_codes, payment_initiation.qr_code_id[1])
          /\ create_payment_rows(initiated_payment_request(payment_initiation))
  /\ UNCHANGED <<users, user_sessions>>

\* initiate_payment while the tables stay within the bounds
InitiatePayment(payment_initiation) ==
  /\ Cardinality(Created) < MaxIngressPayments
  /\ \A q \in DOMAIN qr_codes : qr_codes[q].usage_count < MaxQrUses
  /\ initiate_payment(payment_initiation)

QrNext ==
  \/ \E m \in QrOwners, n \in MaxUsages, e \in ExpiresInMinutes : GenerateQrCode(m, n, e)
  \/ \E i \in PaymentInitiations : InitiatePayment(i)

QrSpec == Init /\ [][QrNext]_vars

\* ----------------------------------------------------------- authentication
\* the e-mail addresses requests name; a user's id is its e-mail address
Emails == {"user@example.sz"}

\* UserRegistrationRequest.role, as far as authenticate_user tells roles apart
Roles == {"CITIZEN", "ADMIN"}

HourTicks == 60 * MinuteTicks

\* User(...) as register_user constructs it; the column defaults of auth_models.py
NewUser(role) ==
  [ role |-> role,
    status |-> "pending",
    email_verified |-> FALSE,
    email_verification_token |-> TRUE,
    failed_login_attempts |-> 0,
    password_reset_token |-> None,
    password_reset_expires |-> None ]

\* AuthenticationService.generate_jwt_token: the payload; two tokens of one
\* user, type and second are the same string
generate_jwt_token(user_id, token_type) ==
  [ user_id |-> user_id, type |-> token_type, iat |-> now,
    exp |-> IF token_type = "access"
            THEN now + access_token_expire_hours * HourTicks
            ELSE now + refresh_token_expire_days * 24 * HourTicks ]

\* AuthenticationService.verify_jwt_token
verify_jwt_token(token, token_type) ==
  token.type = token_type /\ ~(now > token.exp)

\* the active session get_user_by_token and get_current_user look for
ActiveSessions(user_id, access_token) ==
  { i \in DOMAIN user_sessions :
      /\ user_sessions[i].user_id = user_id
      /\ user_sessions[i].access_token = access_token
      /\ user_sessions[i].is_active }

\* AuthenticationService.get_user_by_token: the user id, or None
get_user_by_token(access_token) ==
  IF ~verify_jwt_token(access_token, "access") THEN None
  ELSE IF ActiveSessions(access_token.user_id, access_token) = {} THEN None
  ELSE Some(access_token.user_id)

\* the bearer tokens requests carry: the access and refresh tokens issued
BearerTokens ==
  { user_sessions[i].access_token : i \in DOMAIN user_sessions }
    \cup { user_sessions[i].refresh_token : i \in DOMAIN user_sessions }

Exchange(fn, args, result) == call' = [fn |-> fn, args |-> args, result |-> result]

\* POST /register: register_user for an address not yet registered
RegisterUser(email, role) ==
  /\ email \notin DOMAIN users
  /\ users' = users @@ (email :> NewUser(role))
  /\ Exchange("register_user", email, "User registered successfully")
  /\ UNCHANGED <<payments, transactions, session, pc, local, rate_limits, now, background_tasks,
                 user_sessions, qr_codes>>

\* POST /verify-email with the token register_user stored
VerifyEmail(email) ==
  /\ email \in DOMAIN users
  /\ users[email].email_verification_token
  /\ users' = [users EXCEPT ![email].email_verified = TRUE,
                            ![email].email_verification_token = FALSE,
                            ![email].status = IF @ = "pending" THEN "active" ELSE @]
  /\ Exchange("verify_email", email, "Email verified successfully")
  /\ UNCHANGED <<payments, transactions, session, pc, local, rate_limits, now, background_tasks,
                 user_sessions, qr_codes>>

\* an authenticate_user that locks only above the limit
authenticate_user_reason_late(email, password_ok) ==
  IF email \notin DOMAIN users THEN "user_not_found"
  ELSE IF users[email].status = "blocked" THEN "account_blocked"
  ELSE IF users[email].status = "suspended" THEN "account_suspended"
  ELSE IF users[email].failed_login_attempts > max_failed_attempts THEN "too_many_attempts"
  ELSE IF ~password_ok THEN "invalid_password"
  ELSE IF ~users[email].email_verified /\ users[email].role # "ADMIN" THEN "email_not_verified"
  ELSE IF \E i \in DOMAIN user_sessions :
            user_sessions[i].access_token = generate_jwt_token(email, "access")
       THEN "integrity_error"
  ELSE "success"

\* AuthenticationService.authenticate_user: the branch a login takes
\* (lines 165-219); the commit of line 219 violates the unique constraint of
\* UserSession.access_token when the same token is already stored
authenticate_user_reason(email, password_ok) ==
  IF email \notin DOMAIN users THEN "user_not_found"
  ELSE IF users[email].status = "blocked" THEN "account_blocked"
  ELSE IF users[email].status = "suspended" THEN "account_suspended"
  ELSE IF users[email].failed_login_attempts >= max_failed_attempts THEN "too_many_attempts"
  ELSE IF ~password_ok THEN "invalid_password"
  ELSE IF ~users[email].email_verified /\ users[email].role # "ADMIN" THEN "email_not_verified"
  ELSE IF \E i \in DOMAIN user_sessions :
            user_sessions[i].access_token = generate_jwt_token(email, "access")
       THEN "integrity_error"
  ELSE "success"

\* the message authenticate_user returns
authenticate_user_message(reason) ==
  CASE reason \in {"user_not_found", "invalid_password"} -> "Invalid email or password"
    [] reason = "account_blocked" -> "Account is blocked. Please contact support."
    [] reason = "account_suspended" -> "Account is suspended. Please contact support."
    [] reason = "too_many_attempts" ->
         "Account locked due to 5 failed login attempts. Try again later."
    [] reason = "email_not_verified" -> "Please verify your email address before logging in"
    [] reason = "integrity_error" -> "Login failed"
    [] OTHER -> "Login successful"

\* UserSession(...) as authenticate_user constructs it (lines 208-216)
NewUserSession(user_id) ==
  [ user_id |-> user_id,
    access_token |-> generate_jwt_token(user_id, "access"),
    refresh_token |-> generate_jwt_token(user_id, "refresh"),
    is_active |-> TRUE ]

\* POST /login (lines 72-96) with authenticate_user (lines 159-250)
authenticate_user(email, password_ok) ==
  LET reason == authenticate_user_reason(email, password_ok)
  IN  /\ Exchange("authenticate_user", [email |-> email, password_ok |-> password_ok],
                  authenticate_user_message(reason))
      /\ users' = IF reason = "invalid_password"
                  THEN [users EXCEPT ![email].failed_login_attempts = @ + 1]
                  ELSE IF reason = "success"
                  THEN [users EXCEPT ![email].failed_login_attempts = 0]
                  ELSE users
      /\ user_sessions' = IF reason = "success"
                          THEN Append(user_sessions, NewUserSession(email))
                          ELSE user_sessions
      /\ UNCHANGED <<payments, transactions, session, pc, local, rate_limits, now,
                     background_tasks, qr_codes>>

\* authenticate_user while fewer than MaxSessions sessions exist
Login(email, password_ok) ==
  /\ Len(user_sessions) < MaxSessions
  /\ authenticate_user(email, password_ok)

\* AuthenticationService.logout_user (lines 291-318): the sessions afterwards
logout_user(user_id, session_id, logout_all) ==
  [ i \in DOMAIN user_sessions |->
      IF /\ user_sessions[i].user_id = user_id
         /\ user_sessions[i].is_active
         /\ (logout_all \/ (session_id # None /\ session_id = Some(i)))
      THEN [user_sessions[i] EXCEPT !.is_active = FALSE]
      ELSE user_sessions[i] ]

\* the HTTP status of POST /logout: 401 from get_current_user, else 200
logout_code(access_token) ==
  IF get_user_by_token(access_token) = None THEN 401 ELSE 200

\* POST /logout (lines 116-130): logout_user is called with session_id None
Logout(access_token, logout_all_devices) ==
  /\ Exchange("logout_user",
              [access_token |-> access_token, logout_all_devices |-> logout_all_devices],
              logout_code(access_token))
  /\ user_sessions' = IF logout_code(access_token) = 401 THEN user_sessions
                      ELSE logout_user(access_token.user_id, None, logout_all_devices)
  /\ UNCHANGED <<payments, transactions, session, pc, local, rate_limits, now, background_tasks,
                 users, qr_codes>>

\* GET /profile: get_current_user answers 401 or lets the request through
GetUserProfile(access_token) ==
  /\ Exchange("get_user_profile", [access_token |-> access_token],
              IF get_user_by_token(access_token) = None THEN 401 ELSE 200)
  /\ UNCHANGED <<payments, transactions, session, pc, local, rate_limits, now, background_tasks,
                 users, user_sessions, qr_codes>>

\* POST /reset-password (lines 236-263): the token is named by its issue time
RequestPasswordReset(email) ==
  /\ users' = IF email \in DOMAIN users
              THEN [users EXCEPT
                      ![email].password_reset_token = Some(now),
                      ![email].password_reset_expires =
                         Some(now + password_reset_expire_hours * HourTicks)]
              ELSE users
  /\ Exchange("request_password_reset", email, 200)
  /\ UNCHANGED <<payments, transactions, session, pc, local, rate_limits, now, background_tasks,
                 user_sessions, qr_codes>>

\* the reset tokens requests carry: those stored and one that never was
ResetTokens ==
  { users[u].password_reset_token : u \in DOMAIN users } \cup {Some(-1)}

\* the users confirm_password_reset finds for a token
ResetTokenOwners(reset_token) ==
  { u \in DOMAIN users : users[u].password_reset_token = reset_token }

\* the HTTP status of POST /reset-password/confirm (lines 271-283)
confirm_password_reset_code(reset_token, is_strong) ==
  IF reset_token = None \/ ResetTokenOwners(reset_token) = {} THEN 400
  ELSE IF \A u \in ResetTokenOwners(reset_token) : users[u].password_reset_expires[1] < now THEN 400
  ELSE IF ~is_strong THEN 400
  ELSE 200

\* POST /reset-password/confirm (lines 265-298)
ConfirmPasswordReset(reset_token, is_strong) ==
  /\ Exchange("confirm_password_reset", [reset_token |-> reset_token, is_strong |-> is_strong],
              confirm_password_reset_code(reset_token, is_strong))
  /\ users' = IF confirm_password_reset_code(reset_token, is_strong) # 200 THEN users
              ELSE [ u \in DOMAIN users |->
                       IF u \in ResetTokenOwners(reset_token)
                       THEN [users[u] EXCEPT !.password_reset_token = None,
                                             !.password_reset_expires = None,
                                             !.failed_login_attempts = 0]
                       ELSE users[u] ]
  /\ UNCHANGED <<payments, transactions, session, pc, local, rate_limits, now, background_tasks,
                 user_sessions, qr_codes>>

\* more than lockout_duration_minutes pass
Elapse ==
  /\ now < MaxElapses * (lockout_duration_minutes + 1) * MinuteTicks
  /\ now' = now + (lockout_duration_minutes + 1) * MinuteTicks
  /\ UNCHANGED <<payments, transactions, session, pc, local, rate_limits, background_tasks,
                 call, users, user_sessions, qr_codes>>

AuthNext ==
  \/ \E email \in Emails, role \in Roles : RegisterUser(email, role)
  \/ \E email \in Emails : VerifyEmail(email)
  \/ \E email \in Emails, password_ok \in BOOLEAN : Login(email, password_ok)
  \/ \E t \in BearerTokens, logout_all_devices \in BOOLEAN : Logout(t, logout_all_devices)
  \/ \E t \in BearerTokens : GetUserProfile(t)
  \/ \E email \in Emails : RequestPasswordReset(email)
  \/ \E t \in ResetTokens, is_strong \in BOOLEAN : ConfirmPasswordReset(t, is_strong)
  \/ Elapse

AuthSpec == Init /\ [][AuthNext]_vars

\* ------------------------------------------------------------- rate limiter
\* APIGateway.check_rate_limit called directly; call keeps the last call and
\* the timestamps of the calls that returned True, per merchant
RateLimitInit ==
  /\ payments = <<>>
  /\ transactions = <<>>
  /\ session = <<>>
  /\ pc = <<>>
  /\ local = <<>>
  /\ rate_limits = [m \in MerchantIds |-> <<>>]
  /\ now = 0
  /\ background_tasks = <<>>
  /\ users = <<>>
  /\ user_sessions = <<>>
  /\ qr_codes = <<>>
  /\ call = [fn |-> "check_rate_limit", args |-> None, result |-> None,
             accepted |-> [m \in MerchantIds |-> <<>>]]

CheckRateLimit(merchant_id) ==
  LET returned == check_rate_limit(rate_limits, merchant_id, now)
  IN  /\ rate_limits' = returned[2]
      /\ call' = [fn |-> "check_rate_limit", args |-> Some(merchant_id),
                  result |-> Some(returned[1]),
                  accepted |-> IF returned[1]
                               THEN [call.accepted EXCEPT ![merchant_id] = Append(@, now)]
                               ELSE call.accepted]
      /\ UNCHANGED <<payments, transactions, session, pc, local, now, background_tasks,
                     users, user_sessions, qr_codes>>

RateLimitNext ==
  \/ \E m \in MerchantIds : CheckRateLimit(m)
  \/ Tick

RateLimitSpec == RateLimitInit /\ [][RateLimitNext]_vars

\* ================================================================== claims
Terminal == {"completed", "failed"}

Steps(log) == [i \in 1..Len(log) |-> log[i].step]

Entry(log, i) == <<log[i].step, log[i].status>>

NonDecreasing(log) == \A i \in 1..(Len(log) - 1) : log[i].timestamp <= log[i + 1].timestamp

\* the exception the handler caught came from a stage, not from the ledger
StageRaised(p) ==
  local[p].e \in {Some("RiskEngineError"), Some("OrchestratorError"), Some("SettlementError")}

\* the exception the handler caught is a ledger write failure of the settlement stage
SettlementLedgerFailure(p) ==
  local[p].e = Some("LedgerError") /\ local[p].settlement_result # None

SystemErrorRecorded(p) ==
  /\ pc[p] = "done"
  /\ payments[p].status = "failed"
  /\ payments[p].error_message # None
  /\ startswith(payments[p].error_message[1], "System error: ")
  /\ Len(transactions[p]) >= 1
  /\ Entry(transactions[p], Len(transactions[p])) = <<"system", "error">>
  /\ Cardinality({i \in 1..Len(transactions[p]) : transactions[p][i].step = "system"}) = 1

\* C1: once process_payment_pipeline has finished (returned, or left by an
\* exception), the payment's status is COMPLETED or FAILED, never PENDING,
\* RISK_CHECK or PROCESSING.
C1_FinishedIsTerminal ==
  \A p \in Created : Finished(p) => payments[p].status \in Terminal

\* C1, the part the code keeps: a run that returns normally leaves a terminal status.
C1_ReturnedIsTerminal ==
  \A p \in Created : pc[p] = "done" => payments[p].status \in Terminal

\* C2: a status that has been set to COMPLETED or FAILED never changes again,
\* neither on the Payment object the pipeline holds nor in the committed row.
C2_TerminalIsFinal ==
  [][\A p \in Created :
        /\ session[p].status \in Terminal => session'[p].status = session[p].status
        /\ payments[p].status \in Terminal => payments'[p].status = payments[p].status]_vars

\* C3: outside the exception handler the committed status changes only along
\* PENDING -> RISK_CHECK -> PROCESSING -> COMPLETED|FAILED or RISK_CHECK -> FAILED,
\* a new payment starts PENDING, and no step at all moves a status backwards.
StatusRank(st) ==
  CASE st = "pending" -> 0
    [] st = "risk_check" -> 1
    [] st = "processing" -> 2
    [] OTHER -> 3

AllowedSteps ==
  { <<"pending", "risk_check">>, <<"risk_check", "processing">>, <<"risk_check", "failed">>,
    <<"processing", "completed">>, <<"processing", "failed">> }

C3_StatusSteps ==
  [][/\ \A p \in Created :
          /\ pc[p] # "except" =>
                \/ payments'[p].status = payments[p].status
                \/ <<payments[p].status, payments'[p].status>> \in AllowedSteps
          /\ StatusRank(payments'[p].status) >= StatusRank(payments[p].status)
     /\ \A p \in DOMAIN payments' \ Created : payments'[p].status = "pending"]_vars

\* C3 witness: a run went PENDING, RISK_CHECK, PROCESSING, COMPLETED with no exception raised.
C3_Witness ==
  \E p \in Created :
    /\ pc[p] = "done" /\ local[p].e = None
    /\ payments[p].status = "completed"
    /\ payments[p].completed_at # None

\* C4: when a stage (risk assessor, rail selector, settlement processor) raised,
\* the finished run has status FAILED, a "System error: " message and exactly one
\* (system, error) entry, the last one, and no exception left the task.
C4_StageErrorRecorded ==
  \A p \in Created : (Finished(p) /\ StageRaised(p)) => SystemErrorRecorded(p)

\* C4, the part the code keeps: so it is whenever the handler's own writes succeed.
C4_StageErrorRecordedOnReturn ==
  \A p \in Created : (pc[p] = "done" /\ StageRaised(p)) => SystemErrorRecorded(p)

\* C5: when a ledger write of the settlement stage raised, the finished run has
\* status FAILED, a "System error: " message and a final (system, error) entry,
\* and no exception left the task.
C5_LedgerFailureRecorded ==
  \A p \in Created : (Finished(p) /\ SettlementLedgerFailure(p)) => SystemErrorRecorded(p)

\* C6: completed_at is set if and only if the status is COMPLETED or FAILED.
C6_CompletedAtIffTerminal ==
  \A p \in Created : (payments[p].completed_at # None) <=> (payments[p].status \in Terminal)

\* C7: a COMPLETED payment has exactly the audit entries api_gateway,
\* risk_engine, orchestrator, settlement, in insert order and in the order of
\* their timestamps, which are non-decreasing.
C7_CompletedAuditSequence ==
  \A p \in Created :
    payments[p].status = "completed" =>
      /\ Steps(transactions[p]) = <<"api_gateway", "risk_engine", "orchestrator", "settlement">>
      /\ Steps(order_by_timestamp(transactions[p])) = Steps(transactions[p])
      /\ NonDecreasing(transactions[p])

\* C7 witness: a run has returned with status COMPLETED, its entries spread over two instants.
C7_Witness ==
  \E p \in Created :
    /\ pc[p] = "done" /\ payments[p].status = "completed"
    /\ transactions[p][1].timestamp < transactions[p][4].timestamp

\* C8: of a finished run the last audit entry tells the final status.
FailedEntries == { <<"risk_engine", "declined">>, <<"settlement", "failed">>, <<"system", "error">> }

LastEntryTellsStatus(p) ==
  /\ Len(transactions[p]) >= 1
  /\ LET last == Entry(transactions[p], Len(transactions[p]))
     IN  /\ payments[p].status = "completed" <=> last = <<"settlement", "completed">>
         /\ payments[p].status = "failed" <=> last \in FailedEntries
         /\ last \notin { <<"api_gateway", "success">>, <<"risk_engine", "completed">>,
                          <<"orchestrator", "routing">> }

C8_LastEntryTellsStatus ==
  \A p \in Created : Finished(p) => LastEntryTellsStatus(p)

\* C8, the part the code keeps: so it is for every run that returned normally.
C8_LastEntryTellsStatusOnReturn ==
  \A p \in Created : pc[p] = "done" => LastEntryTellsStatus(p)

\* C9: no step removes a payment or changes or removes an audit entry: the
\* log of every payment before a step is a prefix of its log after the step.
C9_AuditAppendOnly ==
  [][/\ Created \subseteq DOMAIN transactions'
     /\ \A p \in Created : IsPrefix(transactions[p], transactions'[p])]_vars

\* C9 witness: a payment carries five entries, the last written by the error
\* handler after the settlement entry was committed.
C9_Witness ==
  \E p \in Created :
    /\ Len(transactions[p]) = 5
    /\ transactions[p][4].step = "settlement" /\ transactions[p][5].step = "system"

\* C10: risk score and rail are each written once and never overwritten; the
\* rail is first written when the risk score is there and before a settlement
\* payload exists; no payment has a rail without a risk score, and a COMPLETED
\* payment has both.
C10_ScoreThenRailOnce ==
  [][\A p \in Created :
        /\ payments[p].risk_score # None => payments'[p].risk_score = payments[p].risk_score
        /\ payments[p].settlement_rail # None =>
              payments'[p].settlement_rail = payments[p].settlement_rail
        /\ (payments[p].settlement_rail = None /\ payments'[p].settlement_rail # None) =>
              /\ payments[p].risk_score # None
              /\ payments'[p].settlement_response = None
        /\ (payments[p].settlement_response = None /\ payments'[p].settlement_response # None) =>
              payments[p].settlement_rail # None
        /\ payments'[p].settlement_rail # None => payments'[p].risk_score # None
        /\ payments'[p].status = "completed" =>
              payments'[p].risk_score # None /\ payments'[p].settlement_rail # None]_vars

\* C10 witness: a payment was scored, routed and settled on the international rail.
C10_Witness ==
  \E p \in Created :
    /\ payments[p].risk_score # None
    /\ payments[p].settlement_rail = Some("visa_direct")
    /\ payments[p].settlement_response # None

\* C11: for every payment id at most one pipeline task is ever scheduled: a
\* step that schedules a task does so for an id that had no row and no task,
\* it schedules exactly one, and no later step adds a task for that id,
\* whatever the other payments' tasks are doing.
C11_OneRunPerPayment ==
  [][\A p \in DOMAIN background_tasks' :
        /\ background_tasks'[p] <= 1
        /\ p \in DOMAIN background_tasks => background_tasks'[p] = background_tasks[p]
        /\ p \notin DOMAIN background_tasks => p \notin Created
        /\ p \in DOMAIN pc'
        /\ pc'[p] # "unscheduled" <=> background_tasks'[p] = 1]_vars

\* C11 witness: two payments, each with its one task, both tasks under way.
C11_Witness ==
  /\ Cardinality(Created) = 2
  /\ \A p \in Created : background_tasks[p] = 1
  /\ pc[1] = "settle" /\ pc[2] = "assess"

\* C12: a step in which create_payment accepts a request adds one payment
\* with status PENDING and no risk score, rail, settlement payload or error
\* message, gives it the single audit entry (api_gateway, success), schedules
\* its pipeline task, and answers with status "pending" and the message
\* "Payment initiated successfully".
C12_AcceptedCreation ==
  [][\A id \in Created' \ Created :
        background_tasks'[id] >= 1 =>
          /\ Created' = Created \cup {id}
          /\ payments'[id].status = "pending"
          /\ payments'[id].risk_score = None
          /\ payments'[id].settlement_rail = None
          /\ payments'[id].settlement_response = None
          /\ payments'[id].error_message = None
          /\ Len(transactions'[id]) = 1
          /\ Entry(transactions'[id], 1) = <<"api_gateway", "success">>
          /\ background_tasks'[id] = 1
          /\ pc'[id] = "queued"
          /\ create_payment_code(local'[id].payment_request) = 200
          /\ create_payment_response(id).payment_id = id
          /\ create_payment_response(id).status = "pending"
          /\ create_payment_response(id).message = "Payment initiated successfully"]_vars

\* C12 witness: a payment has just been accepted while the run of an earlier
\* payment has finished.
C12_Witness ==
  \E p, q \in Created :
    /\ p # q /\ Finished(q)
    /\ pc[p] = "queued" /\ payments[p].status = "pending"
    /\ Len(transactions[p]) = 1

\* C13: a request whose merchant is neither registered nor has the MERCH_
\* prefix is answered 401 "Invalid merchant credentials"; a request of an
\* authenticated merchant with RATE_LIMIT calls inside the window is answered
\* 429; a step in which create_payment gives either answer adds no payment, no
\* audit entry and no task and changes no payment and no audit entry.
Unauthenticated(merchant_id) ==
  merchant_id \notin RegisteredMerchants /\ merchant_id[1] # "MERCH_"

CallsInWindow(merchant_id) ==
  Cardinality({i \in 1..Len(rate_limits[merchant_id]) :
                 now - rate_limits[merchant_id][i] < MinuteTicks})

C13_RejectedLeavesNoTrace ==
  [][\A r \in IngressRequests :
        /\ Unauthenticated(r.merchant_id) =>
              /\ create_payment_code(r) = 401
              /\ create_payment_detail(r) = Some("Invalid merchant credentials")
        /\ (~Unauthenticated(r.merchant_id) /\ CallsInWindow(r.merchant_id) >= RATE_LIMIT) =>
              create_payment_code(r) = 429
        /\ (create_payment_code(r) \in {401, 429} /\ create_payment(r)) =>
              UNCHANGED <<payments, transactions, session, pc, local, background_tasks>>]_vars

\* C13 witness: a merchant has used up the rate limit, the next request is
\* answered 429 and the request of the unknown merchant 401.
C13_Witness ==
  /\ Cardinality(Created) = RATE_LIMIT
  /\ \E r \in IngressRequests : create_payment_code(r) = 429
  /\ \E r \in IngressRequests : create_payment_code(r) = 401

\* C14 as stated: a run whose risk assessment recommends DECLINE ends FAILED
\* with the high-risk error message and a (risk_engine, declined) entry, the
\* rail and the settlement payload NULL and no orchestrator or settlement entry.
Declined(p) ==
  /\ local[p].risk_assessment # None
  /\ local[p].risk_assessment[1].recommendation = "DECLINE"

NeverRouted(p) ==
  /\ payments[p].settlement_rail = None
  /\ payments[p].settlement_response = None
  /\ local[p].settlement_result = None
  /\ \A i \in 1..Len(transactions[p]) :
        transactions[p][i].step \notin {"orchestrator", "settlement"}

DeclineRecorded(p) ==
  /\ payments[p].status = "failed"
  /\ payments[p].error_message = Some(<<"Transaction declined due to high risk score">>)
  /\ Entry(transactions[p], Len(transactions[p])) = <<"risk_engine", "declined">>

C14_DeclineEndsHighRisk ==
  \A p \in Created :
    (pc[p] = "done" /\ Declined(p)) => DeclineRecorded(p) /\ NeverRouted(p)

\* C14, amended: a payment whose risk assessment recommends DECLINE never gets
\* a rail, a settlement payload or an orchestrator or settlement entry, in any
\* run; when its run returns without having raised an exception the payment is
\* FAILED with the high-risk error message and its last entry is
\* (risk_engine, declined).
C14_DeclineNeverRoutes ==
  \A p \in Created :
    Declined(p) =>
      /\ NeverRouted(p)
      /\ (pc[p] = "done" /\ local[p].e = None) => DeclineRecorded(p)

\* C14 witness: a declined run has returned without an exception.
C14_Witness ==
  \E p \in Created :
    /\ Declined(p) /\ pc[p] = "done" /\ local[p].e = None
    /\ payments[p].status = "failed"

\* C16 as stated: of a finished run for a request in the local currency
\* within the local rail's limit whose risk score is above 0.7, the recorded
\* rail is the international rail.
C16_HighRiskLocalGoesInternational ==
  \A p \in Created :
    ( /\ pc[p] = "done" /\ local[p].e = None
      /\ payments[p].currency = "SZL"
      /\ payments[p].amount <= ESWATINI_MAX_AMOUNT
      /\ payments[p].risk_score # None
      /\ payments[p].risk_score[1] > 700 )
    => payments[p].settlement_rail = Some("visa_direct")

\* C20 as stated: a run whose settlement reported failure ends FAILED with the
\* rail's error code in the result, the rail's message as error message, the
\* payload stored and a (settlement, failed) entry, and has no step="system"
\* entry and no "System error" message.
SettlementFailed(p) ==
  /\ local[p].settlement_result # None
  /\ local[p].settlement_result[1].status = "failed"

RailErrorCode(p) ==
  local[p].settlement_result[1].error_code =
    (IF payments[p].settlement_rail = Some("eswatini_switch")
     THEN "INSUFFICIENT_FUNDS" ELSE "NETWORK_ERROR")

RailFailureRecorded(p) ==
  /\ payments[p].status = "failed"
  /\ payments[p].error_message =
       Some(IF payments[p].settlement_rail = Some("eswatini_switch")
            THEN <<"Transaction declined by issuing bank">>
            ELSE <<"Temporary network issue, please retry">>)
  /\ payments[p].settlement_response = local[p].settlement_result
  /\ Entry(transactions[p], Len(transactions[p])) = <<"settlement", "failed">>
  /\ \A i \in 1..Len(transactions[p]) : transactions[p][i].step # "system"
  /\ payments[p].error_message[1][1] # "System error: "

C20_SettlementFailureRecorded ==
  \A p \in Created :
    (pc[p] = "done" /\ SettlementFailed(p)) => RailErrorCode(p) /\ RailFailureRecorded(p)

\* C20, amended: a failed settlement result carries the error code of the rail
\* that was used; when the run then returns without having raised an exception
\* the payment is FAILED with the rail's message as error message, the payload
\* stored, (settlement, failed) as last entry, no step="system" entry and no
\* "System error" message.
C20_SettlementFailureRecordedOnReturn ==
  \A p \in Created :
    SettlementFailed(p) =>
      /\ RailErrorCode(p)
      /\ (pc[p] = "done" /\ local[p].e = None) => RailFailureRecorded(p)

\* C20 witness: a run on the local rail whose settlement failed has returned
\* without an exception.
C20_Witness ==
  \E p \in Created :
    /\ SettlementFailed(p) /\ pc[p] = "done" /\ local[p].e = None
    /\ payments[p].settlement_rail = Some("eswatini_switch")

\* C15: select_settlement_rail returns the first match of: risk score above
\* 0.7 gives the international rail; otherwise local currency and an amount of
\* at most the local limit give the local rail; otherwise the international
\* rail.  A score of exactly 0.7 does not trigger the first rule.
Returned(fn) == call.fn = fn /\ call.result # None

C15_RailIsFirstMatch ==
  Returned("select_settlement_rail") =>
    LET currency == call.args.payment_data.currency
        amount == call.args.payment_data.amount
        riskScore == call.args.risk_score
        rail == call.result[1]
    IN  /\ riskScore > 700 => rail = "visa_direct"
        /\ (riskScore <= 700 /\ currency = "SZL" /\ amount <= ESWATINI_MAX_AMOUNT) =>
              rail = "eswatini_switch"
        /\ (riskScore <= 700 /\ ~(currency = "SZL" /\ amount <= ESWATINI_MAX_AMOUNT)) =>
              rail = "visa_direct"

\* C15 witness: a local-currency request of exactly the local limit with a
\* score of exactly 0.7 got the local rail.
C15_Witness ==
  /\ Returned("select_settlement_rail")
  /\ call.args.risk_score = 700
  /\ call.args.payment_data.currency = "SZL"
  /\ call.args.payment_data.amount = ESWATINI_MAX_AMOUNT
  /\ call.result[1] = "eswatini_switch"

\* C17 as stated: the recommendation assess_risk returns is the one its
\* returned 3-decimal risk score gives under the thresholds: below 0.300
\* APPROVE, from 0.300 and below 0.700 REVIEW, from 0.700 DECLINE.
C17_RecommendationOfReturnedScore ==
  Returned("assess_risk") =>
    LET risk_score == call.result[1].risk_score
    IN  call.result[1].recommendation =
          (IF risk_score < 300 THEN "APPROVE"
           ELSE IF risk_score < 700 THEN "REVIEW"
           ELSE "DECLINE")

\* C18: the risk score assess_risk returns lies in [0, 1] for every
\* combination of factors and every anomaly component in [0, 0.30]; a sum of
\* the contributions above 1 is returned as 1.
ContributionSum ==
  (IF call.args.payment_data.amount > high_amount_threshold THEN 3000 ELSE 0)
  + (IF call.args.current_hour \in unusual_hours THEN 2000 ELSE 0)
  + (IF call.args.payment_data.merchant_id \notin merchant_profiles THEN 1000
     ELSE IF call.args.velocity THEN 4000 ELSE 0)
  + (IF /\ call.args.payment_data.customer_location # None
        /\ call.args.payment_data.customer_location[1] \notin known_locations
     THEN 1500 ELSE 0)
  + call.args.ml_anomaly_score

C18_ScoreInUnitInterval ==
  Returned("assess_risk") =>
    /\ call.result[1].risk_score >= 0
    /\ call.result[1].risk_score <= 1000
    /\ ContributionSum > 10000 => call.result[1].risk_score = 1000

\* C18 witness: contributions that add up to more than 1 were returned as 1.
C18_Witness ==
  /\ Returned("assess_risk")
  /\ ContributionSum > 10000
  /\ call.result[1].risk_score = 1000

\* C19: a successful settlement returns the fee amount x fee rate and the net
\* amount - fee, each rounded to 2 decimals, with the fee rate of the rail
\* used; an amount of 1000 gives 15.00 and 985.00 on the local rail, 25.00 and
\* 975.00 on the international rail.
Abs(n) == IF n < 0 THEN 0 - n ELSE n

C19_FeeAndNet ==
  (Returned("process_settlement") /\ call.result[1].status = "completed") =>
    LET amount == call.args.payment_data.amount
        local_rail == call.args.settlement_rail = "eswatini_switch"
        permille == IF local_rail THEN ESWATINI_FEE_PERMILLE ELSE VISA_FEE_PERMILLE
        fee == call.result[1].fee
        net_amount == call.result[1].net_amount
    IN  /\ 2 * Abs(10 * fee - amount * permille) <= 10
        /\ 2 * Abs(10 * net_amount - (amount * 1000 - amount * permille)) <= 10
        /\ (amount = 1000 /\ local_rail) => (fee = 1500 /\ net_amount = 98500)
        /\ (amount = 1000 /\ ~local_rail) => (fee = 2500 /\ net_amount = 97500)

\* C19 witness: 1000 settled on the international rail: fee 25.00, net 975.00.
C19_Witness ==
  /\ Returned("process_settlement")
  /\ call.args.settlement_rail = "visa_direct"
  /\ call.args.payment_data.amount = 1000
  /\ call.result[1].status = "completed"
  /\ call.result[1].fee = 2500

\* C21: what get_payment_status shows of a payment is a complete record: with
\* status COMPLETED the risk score, the rail, a settlement payload with status
\* "completed" and the completion time are set and the error message is null;
\* with status FAILED the error message is set, whichever stage failed.
C21_FinishedRecordIsComplete ==
  \A p \in Created :
    LET body == get_payment_status(p)
    IN  /\ body.status = "completed" =>
              /\ body.risk_score # None
              /\ body.settlement_rail # None
              /\ body.settlement_details # None
              /\ body.settlement_details[1].status = "completed"
              /\ body.completed_at # None
              /\ body.error_message = None
        /\ body.status = "failed" => body.error_message # None

\* C21 witness: a payment failed by a system error after its settlement had
\* been stored shows the error message.
C21_Witness ==
  \E p \in Created :
    /\ pc[p] = "done" /\ payments[p].status = "failed"
    /\ payments[p].settlement_response # None
    /\ payments[p].error_message = Some(<<"System error: ", "LedgerError">>)

PcRank(label) ==
  CASE label = "queued" -> 0
    [] label = "assess" -> 1
    [] label = "decide" -> 2
    [] label \in {"declined_log", "route"} -> 3
    [] label = "settle" -> 4
    [] label = "log_settlement" -> 5
    [] label = "final_commit" -> 6
    [] label = "except" -> 7
    [] label = "except_log" -> 8
    [] OTHER -> 9

C25_StagesOnceInOrder ==
  [][\A p \in Created :
        /\ pc'[p] # pc[p] => PcRank(pc'[p]) > PcRank(pc[p])
        /\ (pc'[p] = "decide" /\ pc[p] # "decide") =>
              pc[p] = "assess" /\ local'[p].risk_assessment # None
        /\ (pc'[p] = "route" /\ pc[p] # "route") =>
              pc[p] = "decide" /\ local[p].risk_assessment # None
        /\ (pc'[p] = "settle" /\ pc[p] # "settle") =>
              pc[p] = "route" /\ payments'[p].settlement_rail # None
        /\ local[p].risk_assessment # None =>
              local'[p].risk_assessment = local[p].risk_assessment
        /\ local[p].settlement_result # None =>
              /\ local'[p].settlement_result = local[p].settlement_result
              /\ pc'[p] # "settle"
              /\ payments'[p].settlement_rail = payments[p].settlement_rail]_vars

\* C25 witness: a run whose settlement failed has returned with one
\* settlement entry.
C25_Witness ==
  \E p \in Created :
    /\ pc[p] = "done" /\ local[p].e = None
    /\ local[p].settlement_result # None
    /\ local[p].settlement_result[1].status = "failed"
    /\ Cardinality({i \in 1..Len(transactions[p]) : transactions[p][i].step = "settlement"}) = 1

\* C26: of two runs for the same request, one recommended APPROVE and one
\* REVIEW, that stand at the same position with the same settlement outcome
\* and no exception, the payments have the same status and the same audit
\* entries; past the decision that status is PROCESSING or terminal.
Proceeds(p, recommendation) ==
  /\ local[p].risk_assessment # None
  /\ local[p].risk_assessment[1].recommendation = recommendation
  /\ local[p].e = None

SameOutcome(p, q) ==
  \/ local[p].settlement_result = None /\ local[q].settlement_result = None
  \/ /\ local[p].settlement_result # None /\ local[q].settlement_result # None
     /\ local[p].settlement_result[1].status = local[q].settlement_result[1].status

C26_ReviewLikeApprove ==
  \A p, q \in Created :
    ( /\ Proceeds(p, "APPROVE") /\ Proceeds(q, "REVIEW")
      /\ local[p].payment_request = local[q].payment_request
      /\ pc[p] = pc[q]
      /\ SameOutcome(p, q) )
    => /\ payments[p].status = payments[q].status
       /\ Len(transactions[p]) = Len(transactions[q])
       /\ \A i \in 1..Len(transactions[p]) :
             Entry(transactions[p], i) = Entry(transactions[q], i)
       /\ pc[q] # "decide" => payments[q].status \in {"processing", "completed", "failed"}

\* C26 witness: an APPROVE run and a REVIEW run of the same request have both
\* returned COMPLETED.
C26_Witness ==
  \E p, q \in Created :
    /\ Proceeds(p, "APPROVE") /\ Proceeds(q, "REVIEW")
    /\ pc[p] = "done" /\ pc[q] = "done"
    /\ payments[p].status = "completed" /\ payments[q].status = "completed"

\* C27: whatever random.random() gives, an assessment records the "New
\* merchant" factor and never the velocity factor, returns the same as with
\* the other value of the draw, and returns a score of at least 0.1.
C27_AlwaysNewMerchant ==
  Returned("assess_risk") =>
    /\ \E i \in 1..Len(call.result[1].risk_factors) :
          call.result[1].risk_factors[i] = "New merchant - limited history"
    /\ \A i \in 1..Len(call.result[1].risk_factors) :
          call.result[1].risk_factors[i] # "High transaction velocity detected"
    /\ call.result[1].risk_score >= 100
    /\ call.result[1] = assess_risk(call.args.payment_data, call.args.current_hour,
                                    ~call.args.velocity, call.args.ml_anomaly_score)

\* C27 witness: an assessment whose velocity draw was below 0.1 returned the
\* lowest score, 0.1.
C27_Witness ==
  /\ Returned("assess_risk")
  /\ call.args.velocity
  /\ call.result[1].risk_score = 100

\* C23: for every merchant the calls of check_rate_limit that returned True
\* with timestamps less than one minute apart are never more than 10.
AcceptedWithin(merchant_id, t) ==
  Cardinality({i \in 1..Len(call.accepted[merchant_id]) :
                 /\ t <= call.accepted[merchant_id][i]
                 /\ call.accepted[merchant_id][i] - t < MinuteTicks})

C23_AtMostTenPerMinute ==
  \A m \in MerchantIds, t \in 0..MaxClock : AcceptedWithin(m, t) <= RATE_LIMIT

\* C23, second part: a call for one merchant changes neither the list kept
\* for another merchant nor what the next call for that merchant returns.
C23_MerchantsIndependent ==
  [][\A m \in MerchantIds :
        CheckRateLimit(m) =>
          \A o \in MerchantIds \ {m} :
            /\ rate_limits'[o] = rate_limits[o]
            /\ check_rate_limit(rate_limits', o, now')[1] = check_rate_limit(rate_limits, o, now)[1]]_vars

C23_WitnessNextMinute ==
  \E m \in MerchantIds :
    /\ now >= MinuteTicks
    /\ AcceptedWithin(m, now - MinuteTicks) = RATE_LIMIT
    /\ AcceptedWithin(m, now) >= 1
    /\ call.args = Some(m) /\ call.result = Some(TRUE)

\* C28: a QR code with a usage limit N >= 1 never has usage_count above N;
\* once usage_count has reached N the code is inactive and every
\* initiate_payment naming it is answered 400, and an initiate_payment
\* answered 400 creates no payment and changes no QR code.
Limited(q) == Truthy(qr_codes[q].max_usage) /\ qr_codes[q].max_usage[1] >= 1

C28_UsageWithinLimit ==
  \A q \in DOMAIN qr_codes :
    Limited(q) =>
      /\ qr_codes[q].usage_count <= qr_codes[q].max_usage[1]
      /\ qr_codes[q].usage_count >= qr_codes[q].max_usage[1] =>
            /\ ~qr_codes[q].is_active
            /\ \A i \in PaymentInitiations :
                  i.qr_code_id = Some(q) => initiate_payment_code(i) = 400

C28_RejectionChangesNothing ==
  [][\A i \in PaymentInitiations :
        (InitiatePayment(i) /\ initiate_payment_code(i) = 400) =>
          UNCHANGED <<payments, transactions, session, pc, local, background_tasks,
                      rate_limits, qr_codes>>]_vars

C28_QrUsageLimit ==
  []C28_UsageWithinLimit /\ C28_RejectionChangesNothing

\* C28 witness: a code limited to two uses has been used twice, is inactive,
\* and a further initiate_payment naming it was answered 400 with only the
\* two payments existing.
C28_Witness ==
  \E q \in DOMAIN qr_codes :
    /\ qr_codes[q].max_usage = Some(2)
    /\ qr_codes[q].usage_count = 2
    /\ ~qr_codes[q].is_active
    /\ call # None
    /\ call.args.qr_code_id = Some(q)
    /\ call.args.merchant_id = MERCH_001
    /\ call.result = Some(400)
    /\ Cardinality(Created) = 2

\* C29: an initiate_payment that names a valid QR code and is then rejected
\* with 401 or 429 has added one to the code's usage_count, deactivated the
\* code if that reached its limit, and created no payment record.
C29_RejectedRequestConsumesUse ==
  [][\A i \in PaymentInitiations :
        ( /\ InitiatePayment(i)
          /\ i.qr_code_id # None
          /\ initiate_payment_error(i) = None
          /\ initiate_payment_code(i) \in {401, 429} ) =>
          LET q == i.qr_code_id[1]
          IN  /\ qr_codes'[q].usage_count = qr_codes[q].usage_count + 1
              /\ Limited(q) /\ qr_codes'[q].usage_count >= qr_codes[q].max_usage[1] =>
                    ~qr_codes'[q].is_active
              /\ payments' = payments
              /\ transactions' = transactions
              /\ background_tasks' = background_tasks]_vars

\* C29 witness: the eleventh request of the minute named a code limited to
\* one use; it was answered 429, the ten payments before it exist, and the
\* code is used up.
C29_Witness ==
  \E q \in DOMAIN qr_codes :
    /\ call # None
    /\ call.args.qr_code_id = Some(q)
    /\ call.result = Some(429)
    /\ qr_codes[q].max_usage = Some(1)
    /\ qr_codes[q].usage_count = 1
    /\ ~qr_codes[q].is_active
    /\ Cardinality(Created) = RATE_LIMIT

\* C29 witness for 401: a request of an unknown merchant used up a code.
C29_WitnessUnauthenticated ==
  \E q \in DOMAIN qr_codes :
    /\ call # None
    /\ call.args.qr_code_id = Some(q)
    /\ call.result = Some(401)
    /\ qr_codes[q].usage_count = 1
    /\ Created = {}

\* C24: after POST /logout has answered 200, the access token that
\* authenticated the call is no longer accepted by get_user_by_token, with
\* or without logout_all_devices.
C24_LogoutInvalidatesToken ==
  ( /\ call # None
    /\ call.fn = "logout_user"
    /\ call.result = 200 )
  => get_user_by_token(call.args.access_token) = None

\* C30: failed_login_attempts never exceeds 5, and while it equals 5 every
\* authenticate_user call for the user is rejected as locked, with the right
\* password too and however much time has passed.
Locked(u) == users[u].failed_login_attempts = max_failed_attempts

C30_LockedOut ==
  \A u \in DOMAIN users :
    /\ users[u].failed_login_attempts <= max_failed_attempts
    /\ Locked(u) =>
          \A password_ok \in BOOLEAN :
            authenticate_user_reason(u, password_ok) = "too_many_attempts"

\* C30, second part: a locked counter changes only to 0 and only through
\* confirm_password_reset; any counter returns to 0 only through a successful
\* login or confirm_password_reset.
C30_ResetOnly ==
  [][\A u \in DOMAIN users :
        /\ (Locked(u) /\ users'[u].failed_login_attempts # max_failed_attempts) =>
              /\ users'[u].failed_login_attempts = 0
              /\ call'.fn = "confirm_password_reset" /\ call'.result = 200
        /\ (users[u].failed_login_attempts > 0 /\ users'[u].failed_login_attempts = 0) =>
              \/ call'.fn = "confirm_password_reset" /\ call'.result = 200
              \/ call'.fn = "authenticate_user" /\ call'.result = "Login successful"
        /\ Locked(u) => ~(call'.fn = "authenticate_user" /\ call'.result = "Login successful")]_vars

C30_FailedAttemptsLock ==
  []C30_LockedOut /\ C30_ResetOnly

\* C30 witness: after five wrong passwords and more than twice the lockout
\* duration, a login with the right password was rejected as locked.
C30_Witness ==
  \E u \in DOMAIN users :
    /\ Locked(u)
    /\ users[u].email_verified
    /\ now > 2 * lockout_duration_minutes * MinuteTicks
    /\ call.fn = "authenticate_user"
    /\ call.args.password_ok
    /\ call.result = "Account locked due to 5 failed login attempts. Try again later."

====
